---- MODULE Spec2Model ----
(***************************************************************************)
(* damt: acronym lookup tool (src/damt.ts, revision 0.4.0).                *)
(*                                                                         *)
(* The model follows one process run of damt.ts: the database file is      *)
(* located (findDbFileLocation), the session is opened (openDB), the       *)
(* command line is dispatched (execCliArgs and the tail of the main        *)
(* block), one command runs (dbSearch, dbLatestRecords, printHelp,         *)
(* printVersionInfo or the summary display) and the session is closed.     *)
(*                                                                         *)
(* Library calls the program makes (parseArgs, existsFile, the sqlite DB   *)
(* class, Temporal.Instant) are modelled by what they do at the call       *)
(* sites.  A call that can raise returns a record with a `raised` field;   *)
(* the program has no try/catch except the one in getDisplayDateTime, so   *)
(* a raised call ends the run with an uncaught error (exit code 1).        *)
(***************************************************************************)
EXTENDS Integers, Sequences, FiniteSets, TLC

\* ---------------------------------------------------------------- bounds

\* longest command line drawn for a full process run
MaxArgs == 2
\* most rows of the acronym table in a full process run
MaxRows == 1
\* most rows of the acronym table in the query-layer runs (more than LIMIT 5)
MaxQueryRows == 6
\* longest command line drawn for the command-line runs
MaxFlagArgs == 3

\* ------------------------------------------------------------- JS values

\* the JavaScript value `undefined` where a string is expected
UNDEFINED == "<undefined>"

\* /** Type guard for string */
isString(arg) == arg # UNDEFINED

\* ------------------------------------------------------ command line, parseArgs

\* the words a command line is drawn from
Tokens == {"-s", "-l", "-h", "-v", "api"}

\* parseArgs: /^-[^-]+/  (a short switch)
IsShortFlag(tok) == tok \in {"-s", "-l", "-h", "-v"}

\* parseArgs: /^--.+=/  (a long switch with its value attached)
IsLongFlagWithValue(tok) == tok \in {"--search=api"}

\* parseArgs: /^(-|--)[^-]/  (the next word looks like a switch)
LooksLikeFlag(tok) == IsShortFlag(tok) \/ IsLongFlagWithValue(tok)

\* parseArgs: isNumber(x)
IsNumber(tok) == tok \in {"3", "0"}

\* the one-letter key a switch sets; cliOpts.alias ties it to the long name
FlagKey(tok) ==
  CASE tok \in {"-s", "--search=api"} -> "s"
    [] tok = "-l" -> "l"
    [] tok = "-h" -> "h"
    [] OTHER -> "v"

\* the value attached to a long switch
FlagValue(tok) == IF tok = "--search=api" THEN "api" ELSE ""

\* a parsed value: a boolean, a string or a number
BoolVal(b) == [type |-> "boolean", text |-> IF b THEN "true" ELSE "false"]
TextVal(tok) == [type |-> IF IsNumber(tok) THEN "number" ELSE "string", text |-> tok]

\* JavaScript truthiness of a parsed value (the `if (cliArgs.x)` tests)
Truthy(val) ==
  CASE val.type = "boolean" -> val.text = "true"
    [] val.type = "number" -> val.text # "0"
    [] OTHER -> val.text # ""

\* cliOpts.default: every switch starts false
cliOptsDefault == [k \in {"s", "l", "h", "v"} |-> BoolVal(FALSE)]

\* parseArgs(args, cliOpts) from position i with the keys set so far.
\* stopEarly: the first word that is no switch ends the parse.
RECURSIVE ParseFrom(_, _, _)
ParseFrom(argv, i, acc) ==
  IF i > Len(argv) THEN acc
  ELSE LET tok == argv[i] IN
    IF IsLongFlagWithValue(tok)
      THEN ParseFrom(argv, i + 1, [acc EXCEPT ![FlagKey(tok)] = TextVal(FlagValue(tok))])
    ELSE IF IsShortFlag(tok)
      THEN IF i < Len(argv) /\ argv[i + 1] # "" /\ ~LooksLikeFlag(argv[i + 1])
             THEN ParseFrom(argv, i + 2, [acc EXCEPT ![FlagKey(tok)] = TextVal(argv[i + 1])])
             ELSE ParseFrom(argv, i + 1, [acc EXCEPT ![FlagKey(tok)] = BoolVal(TRUE)])
    ELSE acc

parseArgs(argv) == ParseFrom(argv, 1, cliOptsDefault)

\* Deno.args[i] (0-based in the source); undefined past the end
DenoArg(argv, i) == IF i + 1 <= Len(argv) THEN argv[i + 1] ELSE UNDEFINED

\* the command execCliArgs runs, "none" when it returns to the main block
ExecCommand(argv) ==
  LET cliArgs == parseArgs(argv) IN
  IF Truthy(cliArgs["s"]) THEN "search"
  ELSE IF Truthy(cliArgs["l"]) THEN "latest"
  ELSE IF Truthy(cliArgs["h"]) THEN "help"
  ELSE IF Truthy(cliArgs["v"]) THEN "version"
  ELSE "none"

\* ------------------------------------------------------ database locate functions

\* the path the ACRODB variable names when it names one
EnvPath == "/data/shared.db"

\* join(normalize(dirname(Deno.mainModule)), "acronyms.db")
AppDB == "<appdir>/acronyms.db"

Paths == {EnvPath, AppDB}
FileKinds == {"absent", "file", "dir"}

\* what Deno.env.get("ACRODB") can return
EnvValues == {UNDEFINED, "", EnvPath}

\* JavaScript `a || b` on string-or-undefined operands
JsOr(a, b) == IF a # UNDEFINED /\ a # "" THEN a ELSE b

\* existsFile (deno_mod): lstat succeeds and the entry is a regular file
existsFile(fsys, path) == path \in DOMAIN fsys /\ fsys[path] = "file"

\* getDBEnv without the existsFile test
getDBEnv_NoCheck(envVal, fsys) ==
  LET dbFile == JsOr(envVal, "") IN
  IF dbFile # "" THEN dbFile ELSE UNDEFINED

\* /** Check environment variable 'ACRODB' for a valid filename */
getDBEnv(envVal, fsys) ==
  LET dbFile == JsOr(envVal, "") IN
  IF existsFile(fsys, dbFile) THEN dbFile ELSE UNDEFINED

\* /** Check executable location for valid database file named: 'acronyms.db' */
getLocalDBFile(fsys) == IF existsFile(fsys, AppDB) THEN AppDB ELSE UNDEFINED

\* findDbFileLocation with the two sources tried in the other order
findDbFileLocation_LocalFirst(envVal, fsys) ==
  LET dbLocation == JsOr(getLocalDBFile(fsys), getDBEnv(envVal, fsys)) IN
  IF dbLocation = UNDEFINED \/ dbLocation = ""
    THEN [rejected |-> TRUE, value |-> UNDEFINED]
    ELSE [rejected |-> FALSE, value |-> dbLocation]

\* /** Attempts to find the database file on the local file system */
\* rejected: the promise is rejected with the not-found Error
findDbFileLocation(envVal, fsys) ==
  LET dbLocation == JsOr(getDBEnv(envVal, fsys), getLocalDBFile(fsys)) IN
  IF dbLocation = UNDEFINED \/ dbLocation = ""
    THEN [rejected |-> TRUE, value |-> UNDEFINED]
    ELSE [rejected |-> FALSE, value |-> dbLocation]

\* ------------------------------------------------------ the acronym table

\* a stored Changed value: SQLite keeps whatever was inserted.
\* An integer of epoch seconds is kept as days d and seconds s (d*86400 + s).
ChangedInt(d, s) == [t |-> "integer", d |-> d, s |-> s]
ChangedNull == [t |-> "null", d |-> 0, s |-> 0]
ChangedText == [t |-> "text", d |-> 0, s |-> 0]
ChangedReal == [t |-> "real", d |-> 0, s |-> 0]

\* the rows a table is drawn from (Source "NULL" is the SQL null)
RowKinds ==
  { [Acronym |-> "API", Source |-> "B",    Changed |-> ChangedInt(19795, 27965)],
    [Acronym |-> "api", Source |-> "NULL", Changed |-> ChangedNull],
    [Acronym |-> "CPU", Source |-> "A",    Changed |-> ChangedText],
    [Acronym |-> "Api", Source |-> "A",    Changed |-> ChangedInt(100000001, 0)],
    [Acronym |-> "CPU", Source |-> "",     Changed |-> ChangedReal] }

\* the rows of the larger query-layer tables
QueryRowKinds ==
  { [Acronym |-> "API", Source |-> "B",    Changed |-> ChangedInt(19795, 27965)],
    [Acronym |-> "api", Source |-> "NULL", Changed |-> ChangedNull],
    [Acronym |-> "Api", Source |-> "A",    Changed |-> ChangedText],
    [Acronym |-> "CPU", Source |-> "A",    Changed |-> ChangedInt(100000001, 0)] }

\* every table of at most n rows; the rowid of a row is its position
TablesUpTo(kinds, n) == UNION { [1..k -> kinds] : k \in 0..n }

\* ifnull(X,'')
IfNull(x) == IF x = "NULL" THEN "" ELSE x

\* the place of a Source value in SQLite's sort order: NULL first, then text
SourceRank(src) ==
  CASE src = "NULL" -> 0
    [] src = "" -> 1
    [] src = "A" -> 2
    [] OTHER -> 3

\* NOCASE folding of the ASCII letters
Fold(str) == IF str \in {"API", "Api", "api"} THEN "api" ELSE str

\* Acronym like ? collate nocase
Like(acronym, pattern) ==
  acronym # "NULL" /\ (pattern = "%" \/ Fold(acronym) = Fold(pattern))

\* a set of rowids as the sequence of rising key (key: a function on ids
\* that gives no two rowids the same number)
RECURSIVE OrderRows(_, _)
OrderRows(ids, key) ==
  IF ids = {} THEN <<>>
  ELSE LET r == CHOOSE x \in ids : \A q \in ids : key[x] <= key[q]
       IN <<r>> \o OrderRows(ids \ {r}, key)

\* "... where Acronym like ? collate nocase order by Source": the rowids in
\* the order yielded.  SQL leaves the order of rows with equal Source open;
\* tieAsc says whether the engine yields them by rising or by falling rowid.
SearchRows(tbl, pattern, tieAsc) ==
  LET hit == { r \in DOMAIN tbl : Like(tbl[r].Acronym, pattern) }
      key == [r \in hit |->
                SourceRank(tbl[r].Source) * (Len(tbl) + 1)
                  + (IF tieAsc THEN r ELSE Len(tbl) - r)]
  IN OrderRows(hit, key)

\* the LIMIT of the query in dbLatestRecords
LatestLimit == 5

\* LatestRows without the LIMIT
LatestRows_NoLimit(tbl) == OrderRows(DOMAIN tbl, [r \in DOMAIN tbl |-> 0 - r])

\* "... Order by rowid DESC LIMIT 5": the rowids in the order yielded
LatestRows(tbl) ==
  LET all == OrderRows(DOMAIN tbl, [r \in DOMAIN tbl |-> 0 - r])
  IN IF Len(all) <= LatestLimit THEN all ELSE SubSeq(all, 1, LatestLimit)

\* ------------------------------------------------------ the DB handle

\* what can go wrong with the opened file: nothing, or the named call raises
DbFaults == {"none", "open", "prepare", "step", "query"}

\* db.query(sql): raises on a closed handle or when the engine fails
DbQuery(db, fault, result) ==
  IF db = "closed" \/ fault = "query"
    THEN [raised |-> TRUE, val |-> ""]
    ELSE [raised |-> FALSE, val |-> result]

\* a handle is truthy unless it is undefined
Valid(db) == db # UNDEFINED

\* /** Obtain the total number of acronym records in the database */
recordCount(db, tbl, fault) ==
  IF Valid(db) THEN DbQuery(db, fault, ToString(Len(tbl)))
  ELSE [raised |-> FALSE, val |-> "ERROR"]

\* /** Obtain the SQLite version */
sqliteVersion(db, tbl, fault) ==
  IF Valid(db) THEN DbQuery(db, fault, "3.x")
  ELSE [raised |-> FALSE, val |-> "ERROR"]

\* /** Obtain the last acronym (ie newest) entered into the database */
lastAcronym(db, tbl, fault) ==
  IF Valid(db)
    THEN DbQuery(db, fault, IF Len(tbl) = 0 THEN "" ELSE IfNull(tbl[Len(tbl)].Acronym))
    ELSE [raised |-> FALSE, val |-> "ERROR"]

\* ------------------------------------------------------ getDisplayDateTime

\* Temporal.Instant.fromEpochSeconds(x): ToNumber, then the value must be an
\* integer within 10^8 days of the epoch, else a RangeError is thrown.
\* ifnull(Changed,'') hands a null over as '', which ToNumber reads as 0.
fromEpochSeconds(changed) ==
  CASE changed.t = "null" -> [raised |-> FALSE, d |-> 0, s |-> 0]
    [] changed.t = "integer" ->
         IF changed.d < 100000000 \/ (changed.d = 100000000 /\ changed.s = 0)
           THEN [raised |-> FALSE, d |-> changed.d, s |-> changed.s]
           ELSE [raised |-> TRUE, d |-> 0, s |-> 0]
    [] OTHER -> [raised |-> TRUE, d |-> 0, s |-> 0]

\* instance.toLocaleString(undefined, options): the date as text
toLocaleString(inst) == "day " \o ToString(inst.d) \o " +" \o ToString(inst.s) \o "s"

\* getDisplayDateTime without its try/catch
getDisplayDateTime_NoCatch(changed) ==
  LET instance == fromEpochSeconds(changed) IN
  IF instance.raised
    THEN [raised |-> TRUE, val |-> "", err |-> ""]
    ELSE [raised |-> FALSE, val |-> toLocaleString(instance), err |-> ""]

\* /** Convert epoch date to date and time for display in output as a string */
getDisplayDateTime(changed) ==
  LET instance == fromEpochSeconds(changed) IN
  IF instance.raised
    THEN [raised |-> FALSE, val |-> "UNKNOWN", err |-> "Failed to convert epoch date"]
    ELSE [raised |-> FALSE, val |-> toLocaleString(instance), err |-> ""]

\* ------------------------------------------------------ state of one process run

VARIABLES
  args,        \* Deno.args
  envVal,      \* the value of the ACRODB environment variable
  fsys,        \* what sits at each path of the file system
  pc,          \* where the run stands
  dbLocation,  \* main: const dbLocation
  db,          \* the DB handle: undefined, "open" or "closed"
  table,       \* the rows of the ACRONYMS table of the opened file
  dbFault,     \* which call on the opened file raises, if any
  cmd,         \* the command that runs
  searchItem,  \* dbSearch: searchItem
  cursor,      \* the prepared query: "none", "open", "drained", "finalized"
  pending,     \* rowids the prepared query has still to yield
  resultCount, \* dbSearch / dbLatestRecords: let resultCount
  out,         \* lines written with console.log
  errOut,      \* lines written with console.error
  closeCount,  \* calls of db.close()
  uncaught,    \* the call whose error ended the run, "none" otherwise
  exitCode     \* the exit code once pc = "exited"

vars == <<args, envVal, fsys, pc, dbLocation, db, table, dbFault, cmd, searchItem,
          cursor, pending, resultCount, out, errOut, closeCount, uncaught, exitCode>>

\* every command line of at most n words
ArgsUpTo(words, n) == UNION { [1..k -> words] : k \in 0..n }

\* a line of output
Line(kind, id, a, b, c) == [kind |-> kind, id |-> id, a |-> a, b |-> b, c |-> c]

\* the state before the main block has run anything
Fresh ==
  /\ cmd = "none"
  /\ searchItem = UNDEFINED
  /\ cursor = "none"
  /\ pending = <<>>
  /\ resultCount = 0
  /\ out = <<>>
  /\ errOut = <<>>
  /\ closeCount = 0
  /\ uncaught = "none"
  /\ exitCode = 0

Init ==
  /\ args \in ArgsUpTo(Tokens, MaxArgs)
  /\ envVal \in EnvValues
  /\ fsys \in [Paths -> FileKinds]
  /\ pc = "locate"
  /\ dbLocation = UNDEFINED
  /\ db = UNDEFINED
  /\ table = <<>>
  /\ dbFault = "none"
  /\ Fresh

\* an error nobody catches: Deno prints it and exits with code 1
Raise(what) ==
  /\ pc' = "exited"
  /\ exitCode' = 1
  /\ uncaught' = what
  /\ errOut' = Append(errOut, "error: Uncaught")

\* Locate without the `if (!dbLocation)` exit
Locate_NoGuard ==
  /\ pc = "locate"
  /\ LET found == findDbFileLocation(envVal, fsys) IN
     /\ errOut' = IF found.rejected
                    THEN Append(errOut, "Error: 'findDbFileLocation()' failed")
                    ELSE errOut
     /\ dbLocation' = found.value
     /\ pc' = "open"
  /\ UNCHANGED <<args, envVal, fsys, db, table, dbFault, cmd, searchItem, cursor,
                 pending, resultCount, out, closeCount, uncaught, exitCode>>

\* Locate with the help and version switches handled before the database is
\* looked for
Locate_ArgsFirst ==
  /\ pc = "locate"
  /\ LET found == findDbFileLocation(envVal, fsys)
         chosen == IF Len(args) > 0 THEN ExecCommand(args) ELSE "none"
     IN
     IF chosen \in {"help", "version"}
       THEN /\ out' = Append(out, Line(chosen, 0, "", "", ""))
            /\ pc' = "exited"
            /\ exitCode' = 0
            /\ UNCHANGED <<dbLocation, errOut>>
     ELSE IF found.rejected \/ found.value = UNDEFINED \/ found.value = ""
       THEN /\ errOut' = errOut \o <<"Error: 'findDbFileLocation()' failed",
                                     "[!] FATAL ERROR: database not found. Exit.">>
            /\ pc' = "exited"
            /\ exitCode' = 1
            /\ UNCHANGED <<dbLocation, out>>
       ELSE /\ dbLocation' = found.value
            /\ pc' = "open"
            /\ UNCHANGED <<errOut, exitCode, out>>
  /\ UNCHANGED <<args, envVal, fsys, db, table, dbFault, cmd, searchItem, cursor,
                 pending, resultCount, closeCount, uncaught>>

\* main: locate the database file, exit with 1 when there is none
Locate ==
  /\ pc = "locate"
  /\ LET found == findDbFileLocation(envVal, fsys) IN
     IF found.rejected \/ found.value = UNDEFINED \/ found.value = ""
       THEN /\ errOut' = errOut \o <<"Error: 'findDbFileLocation()' failed",
                                     "[!] FATAL ERROR: database not found. Exit.">>
            /\ pc' = "exited"
            /\ exitCode' = 1
            /\ UNCHANGED dbLocation
       ELSE /\ dbLocation' = found.value
            /\ pc' = "open"
            /\ UNCHANGED <<errOut, exitCode>>
  /\ UNCHANGED <<args, envVal, fsys, db, table, dbFault, cmd, searchItem, cursor,
                 pending, resultCount, out, closeCount, uncaught>>

\* main: const db = openDB(dbLocation); if (db) ...
\* The file opened holds some table and may be one the engine fails on.
OpenDB ==
  /\ pc = "open"
  /\ \E fault \in DbFaults, tbl \in TablesUpTo(RowKinds, MaxRows) :
       IF ~isString(dbLocation)
         THEN /\ pc' = "exited"
              /\ UNCHANGED <<db, table, dbFault, uncaught, errOut, exitCode>>
       ELSE IF fault = "open"
         THEN /\ Raise("open")
              /\ UNCHANGED <<db, table, dbFault>>
       ELSE /\ db' = "open"
            /\ table' = tbl
            /\ dbFault' = fault
            /\ pc' = "dispatch"
            /\ UNCHANGED <<uncaught, errOut, exitCode>>
  /\ UNCHANGED <<args, envVal, fsys, dbLocation, cmd, searchItem, cursor, pending,
                 resultCount, out, closeCount>>

\* main: if (Deno.args.length > 0) await execCliArgs(db), up to the command chosen
execCliArgs ==
  /\ pc = "dispatch"
  /\ LET chosen == IF Len(args) > 0 THEN ExecCommand(args) ELSE "none" IN
     /\ cmd' = chosen
     /\ searchItem' = IF chosen = "search" THEN DenoArg(args, 1) ELSE searchItem
     /\ pc' = CASE chosen = "search" -> "dbSearch"
                [] chosen = "latest" -> "dbLatestRecords"
                [] chosen = "help" -> "printHelp"
                [] chosen = "version" -> "printVersionInfo"
                [] OTHER -> "main"
  /\ UNCHANGED <<args, envVal, fsys, dbLocation, db, table, dbFault, cursor, pending,
                 resultCount, out, errOut, closeCount, uncaught, exitCode>>

\* MainBranch with the test written as Deno.args.length > 1
MainBranch_MoreThanOne ==
  /\ pc = "main"
  /\ IF Len(args) > 1
       THEN /\ out' = Append(out, Line("trying", 0, "", DenoArg(args, 0), ""))
            /\ searchItem' = DenoArg(args, 0)
            /\ cmd' = "implicit"
            /\ pc' = "dbSearch"
       ELSE /\ cmd' = "info"
            /\ pc' = "info"
            /\ UNCHANGED <<out, searchItem>>
  /\ UNCHANGED <<args, envVal, fsys, dbLocation, db, table, dbFault, cursor, pending,
                 resultCount, errOut, closeCount, uncaught, exitCode>>

\* main: if (Deno.args.length === 1) { search } else { summary display }
MainBranch ==
  /\ pc = "main"
  /\ IF Len(args) = 1
       THEN /\ out' = Append(out, Line("trying", 0, "", DenoArg(args, 0), ""))
            /\ searchItem' = DenoArg(args, 0)
            /\ cmd' = "implicit"
            /\ pc' = "dbSearch"
       ELSE /\ cmd' = "info"
            /\ pc' = "info"
            /\ UNCHANGED <<out, searchItem>>
  /\ UNCHANGED <<args, envVal, fsys, dbLocation, db, table, dbFault, cursor, pending,
                 resultCount, errOut, closeCount, uncaught, exitCode>>

\* LoopStep without resultCount++
LoopStep_NoCount(done) ==
  IF dbFault = "step"
    THEN /\ Raise("step")
         /\ UNCHANGED <<cursor, pending, resultCount, out>>
  ELSE IF pending = <<>>
    THEN /\ cursor' = "drained"
         /\ pc' = done
         /\ UNCHANGED <<pending, resultCount, out, errOut, uncaught, exitCode>>
  ELSE LET rowid == Head(pending)
           row == table[rowid]
           lastUpdate == getDisplayDateTime(row.Changed)
       IN /\ out' = Append(out, Line("record", rowid, IfNull(row.Source),
                                      lastUpdate.val, IfNull(row.Acronym)))
          /\ errOut' = errOut
          /\ pending' = Tail(pending)
          /\ UNCHANGED <<pc, cursor, resultCount, uncaught, exitCode>>

\* the body of the for-of loops of dbSearch and dbLatestRecords: one call of
\* the iterator, then one record block (or the end of the loop at `done`)
LoopStep(done) ==
  IF dbFault = "step"
    THEN /\ Raise("step")
         /\ UNCHANGED <<cursor, pending, resultCount, out>>
  ELSE IF pending = <<>>
    THEN /\ cursor' = "drained"
         /\ pc' = done
         /\ UNCHANGED <<pending, resultCount, out, errOut, uncaught, exitCode>>
  ELSE LET rowid == Head(pending)
           row == table[rowid]
           lastUpdate == getDisplayDateTime(row.Changed)
       IN IF lastUpdate.raised
            THEN /\ Raise("format")
                 /\ UNCHANGED <<cursor, pending, resultCount, out>>
            ELSE /\ out' = Append(out, Line("record", rowid, IfNull(row.Source),
                                             lastUpdate.val, IfNull(row.Acronym)))
                 /\ errOut' = IF lastUpdate.err = "" THEN errOut
                              ELSE Append(errOut, lastUpdate.err)
                 /\ resultCount' = resultCount + 1
                 /\ pending' = Tail(pending)
                 /\ UNCHANGED <<pc, cursor, uncaught, exitCode>>

\* the end of dbSearch and dbLatestRecords: the summary line with
\* recordCount(db), then finalize()
SummaryStep(kind, item) ==
  LET total == recordCount(db, table, dbFault) IN
  IF total.raised
    THEN /\ Raise("query")
         /\ UNCHANGED <<cursor, out>>
    ELSE /\ out' = Append(out, Line(kind, resultCount, total.val, item, ""))
         /\ cursor' = "finalized"
         /\ pc' = "return"
         /\ UNCHANGED <<errOut, uncaught, exitCode>>

\* dbSearch: the isString guard and db.prepareQuery(...).iter([searchItem])
dbSearch ==
  /\ pc = "dbSearch"
  /\ \E tieAsc \in BOOLEAN :
       IF ~isString(searchItem)
         THEN /\ pc' = "return"
              /\ UNCHANGED <<cursor, pending, resultCount, errOut, uncaught, exitCode>>
       ELSE IF dbFault = "prepare"
         THEN /\ Raise("prepare")
              /\ UNCHANGED <<cursor, pending, resultCount>>
       ELSE /\ cursor' = "open"
            /\ pending' = SearchRows(table, searchItem, tieAsc)
            /\ resultCount' = 0
            /\ pc' = "searchLoop"
            /\ UNCHANGED <<errOut, uncaught, exitCode>>
  /\ UNCHANGED <<args, envVal, fsys, dbLocation, db, table, dbFault, cmd, searchItem,
                 out, closeCount>>

\* dbSearch: one turn of the for-of loop
dbSearchLoop ==
  /\ pc = "searchLoop"
  /\ LoopStep("searchSummary")
  /\ UNCHANGED <<args, envVal, fsys, dbLocation, db, table, dbFault, cmd, searchItem,
                 closeCount>>

\* dbSearch: the "Search of ... found ... matches." line and finalize()
dbSearchSummary ==
  /\ pc = "searchSummary"
  /\ SummaryStep("matches", searchItem)
  /\ UNCHANGED <<args, envVal, fsys, dbLocation, db, table, dbFault, cmd, searchItem,
                 pending, resultCount, closeCount>>

\* dbLatestRecords: db.prepareQuery(...).iter()
dbLatestRecords ==
  /\ pc = "dbLatestRecords"
  /\ IF dbFault = "prepare"
       THEN /\ Raise("prepare")
            /\ UNCHANGED <<cursor, pending, resultCount>>
       ELSE /\ cursor' = "open"
            /\ pending' = LatestRows(table)
            /\ resultCount' = 0
            /\ pc' = "latestLoop"
            /\ UNCHANGED <<errOut, uncaught, exitCode>>
  /\ UNCHANGED <<args, envVal, fsys, dbLocation, db, table, dbFault, cmd, searchItem,
                 out, closeCount>>

\* dbLatestRecords: one turn of the for-of loop
dbLatestLoop ==
  /\ pc = "latestLoop"
  /\ LoopStep("latestSummary")
  /\ UNCHANGED <<args, envVal, fsys, dbLocation, db, table, dbFault, cmd, searchItem,
                 closeCount>>

\* dbLatestRecords: the "Showing latest ... records" line and finalize()
dbLatestSummary ==
  /\ pc = "latestSummary"
  /\ SummaryStep("latest", "")
  /\ UNCHANGED <<args, envVal, fsys, dbLocation, db, table, dbFault, cmd, searchItem,
                 pending, resultCount, closeCount>>

\* execCliArgs: printHelp()
printHelp ==
  /\ pc = "printHelp"
  /\ out' = Append(out, Line("help", 0, "", "", ""))
  /\ pc' = "return"
  /\ UNCHANGED <<args, envVal, fsys, dbLocation, db, table, dbFault, cmd, searchItem,
                 cursor, pending, resultCount, errOut, closeCount, uncaught, exitCode>>

\* execCliArgs: await printVersionInfo()
printVersionInfo ==
  /\ pc = "printVersionInfo"
  /\ out' = Append(out, Line("version", 0, "", "", ""))
  /\ pc' = "return"
  /\ UNCHANGED <<args, envVal, fsys, dbLocation, db, table, dbFault, cmd, searchItem,
                 cursor, pending, resultCount, errOut, closeCount, uncaught, exitCode>>

\* the text printDbInfo prints: the three scalar queries, in the order the
\* template evaluates them; raised when one of them raises
DbInfoLine(handle, tbl, fault) ==
  LET version == sqliteVersion(handle, tbl, fault)
      total == recordCount(handle, tbl, fault)
      newest == lastAcronym(handle, tbl, fault)
  IN [raised |-> version.raised \/ total.raised \/ newest.raised,
      line |-> Line("dbinfo", 0, version.val, total.val, newest.val)]

\* main: printVersionInfo(); printDbInfo(dbLocation, db); printHelp()
printDbInfo ==
  /\ pc = "info"
  /\ LET info == DbInfoLine(db, table, dbFault) IN
     IF info.raised
       THEN /\ out' = Append(out, Line("version", 0, "", "", ""))
            /\ Raise("query")
       ELSE /\ out' = out \o <<Line("version", 0, "", "", ""), info.line,
                               Line("help", 0, "", "", "")>>
            /\ pc' = "return"
            /\ UNCHANGED <<errOut, uncaught, exitCode>>
  /\ UNCHANGED <<args, envVal, fsys, dbLocation, db, table, dbFault, cmd, searchItem,
                 cursor, pending, resultCount, closeCount>>

\* db.close(): the engine refuses to close while a prepared query is not finalized
CloseRaises == cursor \in {"open", "drained"}

\* execCliArgs: db.close(); Deno.exit(0) at the end of each of its four branches
execClose ==
  /\ pc = "return"
  /\ cmd \in {"search", "latest", "help", "version"}
  /\ closeCount' = closeCount + 1
  /\ IF CloseRaises
       THEN /\ Raise("close")
            /\ UNCHANGED db
       ELSE /\ db' = "closed"
            /\ pc' = "exited"
            /\ exitCode' = 0
            /\ UNCHANGED <<errOut, uncaught>>
  /\ UNCHANGED <<args, envVal, fsys, dbLocation, table, dbFault, cmd, searchItem,
                 cursor, pending, resultCount, out>>

\* main: if (db) { db.close() } and the end of the main block
mainClose ==
  /\ pc = "return"
  /\ cmd \in {"implicit", "info"}
  /\ closeCount' = closeCount + 1
  /\ IF CloseRaises
       THEN /\ Raise("close")
            /\ UNCHANGED db
       ELSE /\ db' = "closed"
            /\ pc' = "exited"
            /\ exitCode' = 0
            /\ UNCHANGED <<errOut, uncaught>>
  /\ UNCHANGED <<args, envVal, fsys, dbLocation, table, dbFault, cmd, searchItem,
                 cursor, pending, resultCount, out>>

Next ==
  \/ Locate
  \/ OpenDB
  \/ execCliArgs
  \/ MainBranch
  \/ dbSearch
  \/ dbSearchLoop
  \/ dbSearchSummary
  \/ dbLatestRecords
  \/ dbLatestLoop
  \/ dbLatestSummary
  \/ printHelp
  \/ printVersionInfo
  \/ printDbInfo
  \/ execClose
  \/ mainClose

Spec == Init /\ [][Next]_vars

\* ------------------------------------------------------ the query layer on its own

\* command lines of the query-layer runs
QueryArgs ==
  { <<>>, <<"api">>, <<"zzz">>, <<"%">>, <<"-s", "api">>, <<"-s">>,
    <<"-l">>, <<"-l", "3">>, <<"-l", "0">> }

\* the run stands after openDB, on a file the engine reads without failure
InitQuery ==
  /\ args \in QueryArgs
  /\ envVal = EnvPath
  /\ fsys = [p \in Paths |-> IF p = EnvPath THEN "file" ELSE "absent"]
  /\ pc = "dispatch"
  /\ dbLocation = EnvPath
  /\ db = "open"
  /\ table \in TablesUpTo(QueryRowKinds, MaxQueryRows)
  /\ dbFault = "none"
  /\ Fresh

NextQuery ==
  \/ execCliArgs
  \/ MainBranch
  \/ dbSearch
  \/ dbSearchLoop
  \/ dbSearchSummary
  \/ dbLatestRecords
  \/ dbLatestLoop
  \/ dbLatestSummary
  \/ printDbInfo
  \/ execClose
  \/ mainClose

SpecQuery == InitQuery /\ [][NextQuery]_vars

\* ------------------------------------------------------ the command line on its own

\* the words of the command-line runs: the switches, a word, and the search
\* switch in its long form with the term attached
FlagTokens == Tokens \cup {"--search=api"}

\* the run stands after openDB, on a file the engine reads without failure
InitArgs ==
  /\ args \in ArgsUpTo(FlagTokens, MaxFlagArgs)
  /\ envVal = EnvPath
  /\ fsys = [p \in Paths |-> IF p = EnvPath THEN "file" ELSE "absent"]
  /\ pc = "dispatch"
  /\ dbLocation = EnvPath
  /\ db = "open"
  /\ table \in TablesUpTo(RowKinds, MaxRows)
  /\ dbFault = "none"
  /\ Fresh

NextArgs ==
  \/ execCliArgs
  \/ MainBranch
  \/ dbSearch
  \/ dbSearchLoop
  \/ dbSearchSummary
  \/ dbLatestRecords
  \/ dbLatestLoop
  \/ dbLatestSummary
  \/ printHelp
  \/ printVersionInfo
  \/ printDbInfo
  \/ execClose
  \/ mainClose

SpecArgs == InitArgs /\ [][NextArgs]_vars

\* ------------------------------------------------------ the scalar queries on their own

\* the handles a scalar query can be handed
Handles == {UNDEFINED, "open", "closed"}

\* a handle in any state, a table, and no call made yet
InitScalar ==
  /\ args = <<>>
  /\ envVal = EnvPath
  /\ fsys = [p \in Paths |-> IF p = EnvPath THEN "file" ELSE "absent"]
  /\ pc \in {"scalar", "info"}
  /\ dbLocation = EnvPath
  /\ db \in Handles
  /\ table \in TablesUpTo(RowKinds, MaxRows)
  /\ dbFault \in {"none", "query"}
  /\ Fresh

\* one call of a scalar query whose result is printed
ScalarCall(kind, result) ==
  /\ pc = "scalar"
  /\ \A i \in DOMAIN out : out[i].kind # kind
  /\ IF result.raised
       THEN /\ Raise("query")
            /\ UNCHANGED out
       ELSE /\ out' = Append(out, Line(kind, 0, result.val, "", ""))
            /\ UNCHANGED <<pc, errOut, uncaught, exitCode>>
  /\ UNCHANGED <<args, envVal, fsys, dbLocation, db, table, dbFault, cmd, searchItem,
                 cursor, pending, resultCount, closeCount>>

callRecordCount == ScalarCall("recordCount", recordCount(db, table, dbFault))

callSqliteVersion == ScalarCall("sqliteVersion", sqliteVersion(db, table, dbFault))

callLastAcronym == ScalarCall("lastAcronym", lastAcronym(db, table, dbFault))

NextScalar ==
  \/ callRecordCount
  \/ callSqliteVersion
  \/ callLastAcronym
  \/ printDbInfo

SpecScalar == InitScalar /\ [][NextScalar]_vars

\* ------------------------------------------------------ properties

\* the record blocks printed so far
RecordLines == SelectSeq(out, LAMBDA l : l.kind = "record")

\* a line of the given kind has been printed
HasLine(kind) == \E i \in DOMAIN out : out[i].kind = kind

\* the diagnostic of the main block when no database file was located
LocateFailed ==
  \E i \in DOMAIN errOut : errOut[i] = "[!] FATAL ERROR: database not found. Exit."

\* a search or latest command has run to its end (the command holds a term)
ListingDone ==
  /\ pc \in {"return", "exited"}
  /\ \/ cmd = "latest"
     \/ cmd \in {"search", "implicit"} /\ isString(searchItem)

\* the rows of the table the search term matches
Matching == { r \in DOMAIN table : Like(table[r].Acronym, searchItem) }

\* C1: in every run that opened the session, close() has been called on it
\* exactly once when the process has ended, whichever way the run went
\* (normal completion, a command of execCliArgs, or an error after the open).
C1_ClosedExactlyOnce ==
  (pc = "exited" /\ db # UNDEFINED) => (closeCount = 1 /\ db = "closed")

\* C2: when the session is closed or the process has ended, no prepared query
\* is left open: each one was drained to its end or finalized, also when a
\* step of the loop raised.
C2_CursorReleased ==
  (pc = "exited" \/ db = "closed") => cursor \in {"none", "drained", "finalized"}

\* C3: when ACRODB names a path with a regular file, the located database is
\* that path, whatever sits at the fallback location.
C3_EnvironmentFirst ==
  (pc # "locate" /\ envVal \in Paths /\ fsys[envVal] = "file")
    => (dbLocation = envVal /\ ~LocateFailed)

C3_Witness ==
  /\ pc = "open"
  /\ envVal = EnvPath
  /\ fsys[EnvPath] = "file"
  /\ fsys[AppDB] = "file"
  /\ dbLocation = EnvPath

\* ACRODB is unset, empty, or names no regular file
EnvUnusable ==
  \/ envVal = UNDEFINED
  \/ envVal = ""
  \/ envVal \in Paths /\ fsys[envVal] \in {"absent", "dir"}

\* C4: when ACRODB is unset, empty, names nothing or names a directory, and a
\* regular file sits at <program directory>/acronyms.db, the located database
\* is that fallback path and locating does not fail.
C4_FallbackUsed ==
  (pc # "locate" /\ EnvUnusable /\ fsys[AppDB] = "file")
    => (dbLocation = AppDB /\ ~LocateFailed)

C4_Witness ==
  /\ pc = "open"
  /\ envVal = EnvPath
  /\ fsys[EnvPath] = "dir"
  /\ fsys[AppDB] = "file"
  /\ dbLocation = AppDB

\* neither ACRODB nor the fallback location holds a regular file
NoValidFile ==
  /\ ~(envVal \in Paths /\ fsys[envVal] = "file")
  /\ fsys[AppDB] # "file"

\* C5: when neither source holds a regular file the run prints the not-found
\* error and the diagnostic, exits with code 1 and never opens a session; and
\* a session is only ever opened on a path that holds a regular file.
C5_NotFoundExits ==
  /\ (pc # "locate" /\ NoValidFile)
       => /\ pc = "exited"
          /\ exitCode = 1
          /\ LocateFailed
          /\ Len(errOut) = 2
          /\ db = UNDEFINED
          /\ closeCount = 0
          /\ out = <<>>
  /\ db # UNDEFINED => (dbLocation \in Paths /\ fsys[dbLocation] = "file")

C5_Witness ==
  /\ pc = "exited"
  /\ envVal = EnvPath
  /\ fsys[EnvPath] = "dir"
  /\ fsys[AppDB] = "absent"
  /\ exitCode = 1
  /\ LocateFailed

\* C6: on an undefined or an already closed handle (of a file the engine
\* reads without failure) recordCount, sqliteVersion and lastAcronym return
\* "ERROR" and do not raise, so printDbInfo prints its line.
C6_ScalarsReturnError ==
  (db \in {UNDEFINED, "closed"} /\ dbFault = "none")
    => /\ uncaught = "none"
       /\ \A i \in DOMAIN out :
            /\ out[i].kind \in {"recordCount", "sqliteVersion", "lastAcronym"}
                 => out[i].a = "ERROR"
            /\ out[i].kind = "dbinfo"
                 => (out[i].a = "ERROR" /\ out[i].b = "ERROR" /\ out[i].c = "ERROR")
       /\ (pc \in {"return", "exited"} /\ cmd = "none") => HasLine("dbinfo")

SearchSorted ==
  cmd \in {"search", "implicit"}
    => \A i, j \in DOMAIN RecordLines :
         i < j => SourceRank(RecordLines[i].a) <= SourceRank(RecordLines[j].a)

\* the record blocks of a finished latest command are the min(limit, rows)
\* rows of highest rowid, in falling order of rowid
LatestTop(limit) ==
  (cmd = "latest" /\ pc \in {"return", "exited"})
    => LET k == IF limit <= Len(table) THEN limit ELSE Len(table) IN
       /\ Len(RecordLines) = k
       /\ \A i \in 1..k : RecordLines[i].id = Len(table) - i + 1

\* the limit asked for on the command line, 5 when none is given
RequestedLimit ==
  IF Len(args) >= 2 /\ args[1] = "-l" /\ args[2] = "3" THEN 3 ELSE 5

\* C8 as claimed: search output is ordered by source; latest output is the
\* min(limit, rows) newest rows by falling rowid, limit being the requested
\* limit (default 5).
C8_LatestRequestedLimit == SearchSorted /\ LatestTop(RequestedLimit)

\* C8 amended: search output is ordered by source; latest output is the
\* min(5, rows) newest rows by falling rowid, whatever follows the switch.
C8_LatestFixedLimit == SearchSorted /\ LatestTop(5)

C8_Witness ==
  /\ pc = "exited"
  /\ cmd = "latest"
  /\ args = <<"-l", "3">>
  /\ Len(table) > 5
  /\ Len(RecordLines) = 5

\* C9: a search for a term prints one record block for each matching row and
\* then one summary line whose match count is the number of matching rows;
\* with no matching row it prints no block, reports 0 and raises nothing.
C9_SearchCountsMatches ==
  (ListingDone /\ cmd \in {"search", "implicit"})
    => /\ uncaught = "none"
       /\ Len(RecordLines) = Cardinality(Matching)
       /\ { RecordLines[i].id : i \in DOMAIN RecordLines } = Matching
       /\ Len(out) > 0
       /\ out[Len(out)].kind = "matches"
       /\ out[Len(out)].id = Cardinality(Matching)
       /\ out[Len(out)].a = ToString(Len(table))
       /\ out[Len(out)].a # "ERROR"
       /\ Cardinality({ i \in DOMAIN out : out[i].kind = "matches" }) = 1

C9_Witness ==
  /\ pc = "exited"
  /\ cmd = "implicit"
  /\ searchItem = "zzz"
  /\ Len(table) > 0
  /\ RecordLines = <<>>
  /\ out[Len(out)].kind = "matches"
  /\ out[Len(out)].id = 0

\* a stored Changed value that is a count of seconds Temporal can hold
Representable(changed) ==
  /\ changed.t = "integer"
  /\ (changed.d < 100000000 \/ (changed.d = 100000000 /\ changed.s = 0))

\* C10: formatting a timestamp never ends the run: each record block shows a
\* formatted date when the stored value is a representable count of seconds,
\* a date or "UNKNOWN" when it is null, and "UNKNOWN" for any other value;
\* and the listing goes on to its last row and its summary line.
C10_TimestampNeverRaises ==
  /\ uncaught # "format"
  /\ \A i \in DOMAIN out :
       out[i].kind = "record"
         => LET changed == table[out[i].id].Changed IN
            CASE Representable(changed) -> out[i].b # "UNKNOWN" /\ out[i].b # ""
              [] changed.t = "null" -> out[i].b # ""
              [] OTHER -> out[i].b = "UNKNOWN"
  /\ ListingDone
       => /\ uncaught = "none"
          /\ Len(out) > 0
          /\ out[Len(out)].kind \in {"matches", "latest"}
          /\ Len(RecordLines) =
               IF cmd = "latest"
                 THEN (IF Len(table) <= 5 THEN Len(table) ELSE 5)
                 ELSE Cardinality(Matching)

C10_Witness ==
  /\ pc = "exited"
  /\ Len(RecordLines) >= 2
  /\ RecordLines[1].b = "UNKNOWN"
  /\ RecordLines[2].b # "UNKNOWN"
  /\ out[Len(out)].kind \in {"matches", "latest"}

\* the value parseArgs reads for the search switch
SearchSwitch == parseArgs(args)["s"]

\* C11: when the search switch is given with a term, in whatever place on the
\* command line and whether the term follows as a word of its own or is
\* attached as --search=T, the search that runs looks for exactly that term.
C11_SearchUsesGivenTerm ==
  (cmd = "search" /\ SearchSwitch.type = "string" /\ SearchSwitch.text # "")
    => /\ searchItem = SearchSwitch.text
       /\ pc \in {"return", "exited"}
            => \E i \in DOMAIN out :
                 out[i].kind = "matches" /\ out[i].b = SearchSwitch.text

\* a switch is set: parseArgs read a truthy value for it
FlagSet(key) == Len(args) > 0 /\ Truthy(parseArgs(args)[key])

\* the first set switch in the order search, latest, help, version
FirstFlag ==
  IF FlagSet("s") THEN "search"
  ELSE IF FlagSet("l") THEN "latest"
  ELSE IF FlagSet("h") THEN "help"
  ELSE IF FlagSet("v") THEN "version"
  ELSE "none"

\* the kinds of line printed so far
OutKinds == { out[i].kind : i \in DOMAIN out }

\* the kinds of line a command prints
KindsOf(command) ==
  CASE command = "search" -> {"record", "matches"}
    [] command = "latest" -> {"record", "latest"}
    [] command = "help" -> {"help"}
    [] command = "version" -> {"version"}
    [] command = "implicit" -> {"trying", "record", "matches"}
    [] OTHER -> {"version", "dbinfo", "help"}

\* C12: in every run at most one command executes.  With a switch set, the
\* first one in the order search, latest, help, version runs alone, the
\* session is closed and the process exits with code 0 without going on to
\* the implicit search or the summary display; these two exclude each other
\* and run only when no switch is set.
C12_OneCommand ==
  /\ (HasLine("trying") \/ HasLine("dbinfo")) => FirstFlag = "none"
  /\ ~(HasLine("trying") /\ HasLine("dbinfo"))
  /\ (db # UNDEFINED /\ cmd # "none") => OutKinds \subseteq KindsOf(cmd)
  /\ (pc = "exited" /\ db # UNDEFINED)
       => IF FirstFlag # "none"
            THEN /\ cmd = FirstFlag
                 /\ db = "closed"
                 /\ closeCount = 1
                 /\ exitCode = 0
            ELSE cmd = (IF Len(args) = 1 THEN "implicit" ELSE "info")

\* the same on the runs in which no call raises
OneCommandUnlessRaised == uncaught = "none" => C12_OneCommand

\* C13: locating and opening the database come before any handling of the
\* command line: nothing is printed and no command is chosen unless the file
\* was located and the session opened, so a run with -h or -v and no
\* database to be found exits with code 1 and prints no help or version text.
C13_DatabaseBeforeArguments ==
  /\ (out # <<>> \/ cmd # "none")
       => (db # UNDEFINED /\ dbLocation \in Paths /\ fsys[dbLocation] = "file")
  /\ (pc = "exited" /\ NoValidFile)
       => (exitCode = 1 /\ out = <<>> /\ cmd = "none" /\ db = UNDEFINED)

C13_Witness ==
  /\ pc = "exited"
  /\ args = <<"-h">>
  /\ NoValidFile
  /\ exitCode = 1
  /\ out = <<>>

====
